---- MODULE Spec2Model ----
(***************************************************************************)
(* EspoCRM data sync scripts: the report import (import-reports.js), the   *)
(* workflow import (import-workflows.js) and the sanitizers of the export  *)
(* scripts, run against a remote EspoCRM instance.                         *)
(*                                                                         *)
(* An entity snapshot is a function from field names to values.  A field   *)
(* that is absent from the JSON object is absent from the function's       *)
(* domain.  The value of "data" is a nested object, every other value is   *)
(* a string.                                                               *)
(***************************************************************************)
EXTENDS Naturals, Sequences, FiniteSets, TLC

VARIABLES
    kind,        \* "report" (import-reports.js) or "workflow" (import-workflows.js)
    dirExists,   \* the source directory exists
    dir,         \* the directory: a sequence of [fname, body], in readdir order
    credsOk,     \* URL and API key (reports) or user and password (workflows) are set
    remote,      \* the target instance: id -> stored entity (without its id)
    nextFresh,   \* how many identifiers the remote has assigned so far
    run,         \* "first" or "second" execution of the script on the same directory
    pc,          \* where the script stands
    files,       \* the listing kept by main after its filter
    idx,         \* the position of the for loop in files
    payload,     \* the body the current upsert sends
    authToken,   \* what authenticate returned
    reqs,        \* every request issued so far, with its answer
    created,     \* "Created" lines logged / created counter
    updated,     \* "Updated" lines logged / updated counter
    errors,      \* the errors counter of the workflow import
    exitCode,    \* "none" while running, then 0 or 1
    faults,      \* remote failures injected so far
    parsed,      \* names of the files JSON.parse was applied to
    initRemote,  \* the remote before the first run
    firstRemote, \* the remote as the first run left it
    firstClean,  \* the first run completed without any failure
    summary,     \* what the script printed when it completed
    interrupted, \* the first run was interrupted by the operator
    sFn,         \* sanitizer under test
    sIn,         \* its input
    sOut,        \* its result
    heap,        \* the objects in memory during the call: reference -> own fields
    sRet,        \* the reference the sanitizer returned, "none" before the call
    source,      \* the source instance of an export: id -> stored entity
    xcreds,      \* the export's URL and key (reports) or user and password are set
    reportNames, \* REPORT_NAMES of export-reports.js, empty for no filter
    xpc,         \* where the export script stands
    xlist,       \* the ids of the list the export loops over
    xidx,        \* the position of the export's for loop
    outDir,      \* the output directory: file name -> content written
    origin,      \* file name -> id of the source entity last written to it
    manifest,    \* the manifest object of export-workflows.js
    xexit        \* exit status of the export: "none" while running, then 0 or 1

vars == <<kind, dirExists, dir, credsOk, remote, nextFresh, run, pc, files, idx,
          payload, authToken, reqs, created, updated, errors, exitCode, faults,
          parsed, initRemote, firstRemote, firstClean, summary, interrupted,
          sFn, sIn, sOut, heap, sRet, source, xcreds, reportNames, xpc, xlist, xidx, outDir,
          origin, manifest, xexit>>

importVars == <<kind, dirExists, dir, credsOk, remote, nextFresh, run, pc, files,
                idx, payload, authToken, reqs, created, updated, errors, exitCode,
                faults, parsed, initRemote, firstRemote, firstClean, summary,
                interrupted>>

sanVars == <<sFn, sIn, sOut, heap, sRet>>

expVars == <<source, xcreds, reportNames, xpc, xlist, xidx, outDir, origin,
             manifest, xexit>>

(***************************************************************************)
(* Bounds of the model.                                                    *)
(***************************************************************************)
MaxFiles == 3      \* files in the source directory
MaxFaults == 1     \* failing remote answers (5xx, transport) in one behaviour

(***************************************************************************)
(* Snapshots.                                                              *)
(***************************************************************************)
NoBody == <<>>

Has(s, f) == f \in DOMAIN s

\* delete r.f
Del(r, f) == [k \in DOMAIN r \ {f} |-> r[k]]

\* Fields whose value is a nested object.
NestedFields == {"data"}

\* structuredClone(v): a deep copy, rebuilt level by level.
structuredClone(v) ==
    [f \in DOMAIN v |->
        IF f \in NestedFields THEN [k \in DOMAIN v[f] |-> v[f][k]] ELSE v[f]]

\* { ...entity }: a copy of the top level, nested values shared.
ShallowCopy(v) == [f \in DOMAIN v |-> v[f]]

\* export-reports.js sanitize
sanitize(report) ==
    LET r0 == structuredClone(report)
        r1 == Del(r0, "id")
        r2 == Del(r1, "createdAt")
        r3 == Del(r2, "modifiedAt")
        r4 == Del(r3, "createdById")
        r5 == Del(r4, "modifiedById")
    IN  r5

\* Mutant of sanitizeForImport: the last delete (isInternal) is forgotten.
sanitizeForImport_KeepsIsInternal(report) ==
    LET r0 == structuredClone(report)
        r1 == Del(r0, "id")
        r2 == Del(r1, "createdAt")
        r3 == Del(r2, "modifiedAt")
        r4 == Del(r3, "createdById")
        r5 == Del(r4, "modifiedById")
        r6 == Del(r5, "entityId")
        r7 == Del(r6, "entityType")
    IN  r7

\* Mutant of sanitizeForImport: the first delete (id) is forgotten.
sanitizeForImport_KeepsId(report) ==
    LET r0 == structuredClone(report)
        r2 == Del(r0, "createdAt")
        r3 == Del(r2, "modifiedAt")
        r4 == Del(r3, "createdById")
        r5 == Del(r4, "modifiedById")
        r6 == Del(r5, "entityId")
        r7 == Del(r6, "entityType")
        r8 == Del(r7, "isInternal")
    IN  r8

\* import-reports.js sanitizeForImport
sanitizeForImport(report) ==
    LET r0 == structuredClone(report)
        r1 == Del(r0, "id")
        r2 == Del(r1, "createdAt")
        r3 == Del(r2, "modifiedAt")
        r4 == Del(r3, "createdById")
        r5 == Del(r4, "modifiedById")
        r6 == Del(r5, "entityId")
        r7 == Del(r6, "entityType")
        r8 == Del(r7, "isInternal")
    IN  r8

\* export-workflows.js EXCLUDE_FIELDS, in order
EXCLUDE_FIELDS ==
    <<"createdAt", "modifiedAt", "createdById", "createdByName",
      "modifiedById", "modifiedByName">>

RECURSIVE DelAll(_, _, _)
\* EXCLUDE_FIELDS.forEach(field => delete cleaned[field]), from position i on
DelAll(r, fs, i) ==
    IF i > Len(fs) THEN r ELSE DelAll(Del(r, fs[i]), fs, i + 1)

\* export-workflows.js cleanForExport
cleanForExport(entity) ==
    LET cleaned == ShallowCopy(entity)
    IN  DelAll(cleaned, EXCLUDE_FIELDS, 1)

(***************************************************************************)
(* The sanitizers on objects in memory: an object is a reference, the heap *)
(* maps it to its own fields, and the value of a nested field is the       *)
(* reference of the nested object.  A call returns the heap it leaves and  *)
(* the reference of its result.                                            *)
(***************************************************************************)
\* The reference of the object nested in the object at a reference.
NestedRef == ("report" :> "report.data") @@ ("r" :> "r.data")

\* The snapshot v as the object "report" in memory.
Load(v) ==
    ("report" :> [f \in DOMAIN v |-> IF f \in NestedFields THEN NestedRef["report"]
                                     ELSE v[f]])
    @@ (IF Has(v, "data") THEN (NestedRef["report"] :> v["data"]) ELSE NoBody)

\* The snapshot that the object at ref is, nested objects followed.
Value(h, ref) ==
    [f \in DOMAIN h[ref] |-> IF f \in NestedFields THEN h[h[ref][f]] ELSE h[ref][f]]

\* const r = structuredClone(report): a new object, and a new object for
\* every nested one.
HeapStructuredClone(h, src, dst) ==
    (dst :> [f \in DOMAIN h[src] |-> IF f \in NestedFields THEN NestedRef[dst]
                                     ELSE h[src][f]])
    @@ (IF Has(h[src], "data") THEN (NestedRef[dst] :> h[h[src]["data"]]) ELSE NoBody)
    @@ h

\* const cleaned = { ...entity }: a new object whose fields hold the same
\* values, the references of the nested objects included.
HeapSpread(h, src, dst) == (dst :> h[src]) @@ h

\* delete r.f
HeapDelete(h, ref, f) == [h EXCEPT ![ref] = Del(@, f)]

\* export-reports.js sanitize, on the object at report
sanitizeInMemory(h, report) ==
    LET h0 == HeapStructuredClone(h, report, "r")
        h1 == HeapDelete(h0, "r", "id")
        h2 == HeapDelete(h1, "r", "createdAt")
        h3 == HeapDelete(h2, "r", "modifiedAt")
        h4 == HeapDelete(h3, "r", "createdById")
        h5 == HeapDelete(h4, "r", "modifiedById")
    IN  [heap |-> h5, ret |-> "r"]

\* import-reports.js sanitizeForImport, on the object at report
sanitizeForImportInMemory(h, report) ==
    LET h0 == HeapStructuredClone(h, report, "r")
        h1 == HeapDelete(h0, "r", "id")
        h2 == HeapDelete(h1, "r", "createdAt")
        h3 == HeapDelete(h2, "r", "modifiedAt")
        h4 == HeapDelete(h3, "r", "createdById")
        h5 == HeapDelete(h4, "r", "modifiedById")
        h6 == HeapDelete(h5, "r", "entityId")
        h7 == HeapDelete(h6, "r", "entityType")
        h8 == HeapDelete(h7, "r", "isInternal")
    IN  [heap |-> h8, ret |-> "r"]

RECURSIVE HeapDeleteAll(_, _, _, _)
\* EXCLUDE_FIELDS.forEach(field => delete cleaned[field]), from position i on
HeapDeleteAll(h, ref, fs, i) ==
    IF i > Len(fs) THEN h ELSE HeapDeleteAll(HeapDelete(h, ref, fs[i]), ref, fs, i + 1)

\* Mutant of cleanForExportInMemory: no copy is made, cleaned is entity itself.
cleanForExportInMemory_NoCopy(h, entity) ==
    [heap |-> HeapDeleteAll(h, entity, EXCLUDE_FIELDS, 1), ret |-> entity]

\* export-workflows.js cleanForExport, on the object at entity
cleanForExportInMemory(h, entity) ==
    LET h0 == HeapSpread(h, entity, "r")
    IN  [heap |-> HeapDeleteAll(h0, "r", EXCLUDE_FIELDS, 1), ret |-> "r"]

(***************************************************************************)
(* File names are sequences of tokens, so that startsWith and endsWith     *)
(* are computed on the name.                                               *)
(***************************************************************************)
endsWith(f, suffix) == Len(f) > 0 /\ f[Len(f)] = suffix

startsWith(f, prefix) == Len(f) > 0 /\ f[1] = prefix

\* !report?.name : the name is missing or the empty string
NameMissing(report) == ~Has(report, "name") \/ report["name"] = ""

\* `${id}` in a request path: a missing id is interpolated as "undefined"
IdOf(s) == IF Has(s, "id") THEN s["id"] ELSE "undefined"

Data1 == ("columns" :> "c1") @@ ("filter" :> "f1")
Data2 == ("columns" :> "c2")

ManifestBody == ("exportedAt" :> "t0") @@ ("count" :> "2")

\* What a reports directory may hold, in readdir order.
ReportCatalogue ==
    << [fname |-> <<"_", "manifest", ".json">>, body |-> ManifestBody],
       [fname |-> <<"a", ".json">>,
        body |-> ("id" :> "r2") @@ ("name" :> "A") @@ ("createdAt" :> "t1")
                 @@ ("modifiedById" :> "u1") @@ ("entityType" :> "Lead")
                 @@ ("data" :> Data1)],
       [fname |-> <<"b", ".json">>,
        body |-> ("id" :> "r7") @@ ("name" :> "") @@ ("data" :> Data1)],
       [fname |-> <<"c", ".json">>,
        body |-> ("name" :> "B") @@ ("isInternal" :> "false") @@ ("data" :> Data2)],
       [fname |-> <<"d", ".json">>,
        body |-> ("id" :> "r1") @@ ("name" :> "A") @@ ("modifiedAt" :> "t2")
                 @@ ("data" :> Data2)],
       [fname |-> <<"notes", ".txt">>, body |-> NoBody] >>

\* What a workflows directory may hold, in readdir order.
WorkflowCatalogue ==
    << [fname |-> <<"_", "manifest", ".json">>, body |-> ManifestBody],
       [fname |-> <<"w1", ".json">>,
        body |-> ("id" :> "w1") @@ ("name" :> "A") @@ ("createdAt" :> "t1")
                 @@ ("entityType" :> "Lead") @@ ("isActive" :> "true")
                 @@ ("data" :> Data1)],
       [fname |-> <<"w2", ".json">>,
        body |-> ("id" :> "w2") @@ ("name" :> "") @@ ("data" :> Data1)],
       [fname |-> <<"w3", ".json">>,
        body |-> ("id" :> "w3") @@ ("name" :> "B") @@ ("modifiedById" :> "u1")
                 @@ ("data" :> Data2)],
       [fname |-> <<"x", ".json">>,
        body |-> ("name" :> "C") @@ ("data" :> Data2)],
       [fname |-> <<"notes", ".txt">>, body |-> NoBody] >>

Catalogue(k) == IF k = "report" THEN ReportCatalogue ELSE WorkflowCatalogue

RECURSIVE Pick(_, _, _)
\* The entries of catalogue c at the positions of S, in catalogue order.
Pick(c, S, i) ==
    IF i > Len(c) THEN <<>>
    ELSE (IF i \in S THEN <<c[i]>> ELSE <<>>) \o Pick(c, S, i + 1)

Directories(k) ==
    { Pick(Catalogue(k), S, 1) :
        S \in { T \in SUBSET (1..Len(Catalogue(k))) : Cardinality(T) <= MaxFiles } }

\* Targets the import may run against.
ReportRemotes ==
    { NoBody,
      ("r1" :> (("name" :> "A") @@ ("createdAt" :> "t9") @@ ("data" :> Data2))),
      ("r1" :> (("name" :> "A") @@ ("createdAt" :> "t9") @@ ("data" :> Data2)))
        @@ ("r2" :> (("name" :> "B") @@ ("entityType" :> "Account"))) }

WorkflowRemotes ==
    { NoBody,
      ("w1" :> (("name" :> "Z") @@ ("createdAt" :> "t9") @@ ("data" :> Data2))),
      ("w1" :> (("name" :> "Z") @@ ("createdAt" :> "t9") @@ ("data" :> Data2)))
        @@ ("w2" :> (("name" :> "A") @@ ("isActive" :> "false"))) }

Remotes(k) == IF k = "report" THEN ReportRemotes ELSE WorkflowRemotes

\* Identifiers the remote hands out on create, in order.
FreshIds == <<"n1", "n2", "n3", "n4", "n5", "n6", "n7", "n8", "n9", "n10">>

(***************************************************************************)
(* The remote instance, as the scripts use it.                             *)
(***************************************************************************)
\* The entity the remote returns for id: the stored fields and the id.
Entity(rem, id) == rem[id] @@ ("id" :> id)

\* GET /api/v1/Report?maxSize=1&filters[name]=N : the matching reports
MatchesByName(rem, name) ==
    { id \in DOMAIN rem : Has(rem[id], "name") /\ rem[id]["name"] = name }

\* The stored entity after an update with body: the body's fields overwrite.
Merge(body, old) ==
    [f \in DOMAIN body \cup DOMAIN old |-> IF Has(body, f) THEN body[f] ELSE old[f]]

\* The identifier a create of body gets: the supplied one, else a fresh one.
CreateId(body, n) == IF Has(body, "id") THEN body["id"] ELSE FreshIds[n + 1]

\* POST: the remote after a create of body.
RemoteCreate(rem, body, n) == (CreateId(body, n) :> Del(body, "id")) @@ rem

\* PATCH / PUT: the remote after an update of id with body.
RemoteUpdate(rem, id, body) == [rem EXCEPT ![id] = Merge(Del(body, "id"), rem[id])]

Failures == {"500", "neterr"}

\* The answers the remote gives to request q when it works as it should.
Regular(rem, q) ==
    CASE q.purpose = "auth" -> {"200", "401"}
      [] q.purpose = "findByName" -> {"200"}
      [] q.purpose = "entityExists" ->
           IF q.target \in DOMAIN rem THEN {"200"} ELSE {"404"}
      [] q.purpose = "create" ->
           IF Has(q.body, "id") /\ q.body["id"] \in DOMAIN rem THEN {"409"} ELSE {"200"}
      [] q.purpose = "update" ->
           IF q.target \in DOMAIN rem THEN {"200"} ELSE {"404"}

\* The answers of a remote that fails: a 5xx, a transport error, or 404 for a
\* route it does not serve (login, create, update).
Faulty(q) ==
    Failures \cup (IF q.purpose \in {"auth", "create", "update"} THEN {"404"} ELSE {})

\* The answers the remote can give to request q.
Answers(rem, q, f) ==
    (IF f < MaxFaults THEN Faulty(q) ELSE {}) \cup Regular(rem, q)

\* The remote after it answered st to q.
Applied(rem, q, st, n) ==
    IF st # "200" THEN rem
    ELSE IF q.purpose = "create" THEN RemoteCreate(rem, q.body, n)
    ELSE IF q.purpose = "update" THEN RemoteUpdate(rem, q.target, q.body)
    ELSE rem

\* No file: the login request is made for no entity.
NoFile == [fname |-> <<>>, body |-> NoBody]

\* A request as the history keeps it: the run and the file it is made for (the
\* file's name and its content as parsed), what is sent, and the answer.
Request(entry, purpose, method, target, body) ==
    [run |-> run, file |-> entry.fname, src |-> entry.body, purpose |-> purpose,
     method |-> method, target |-> target, body |-> body, status |-> "pending",
     result |-> "none"]

\* The identifier in the body of a 2xx answer to q, "none" if there is none.
ResultId(rem, q, st, n) ==
    IF st # "200" THEN "none"
    ELSE IF q.purpose = "create" THEN CreateId(q.body, n)
    ELSE IF q.purpose \in {"update", "entityExists"} THEN q.target
    ELSE "none"

Last(s) == s[Len(s)]

\* Mutant of Answered: the answer is not waited for, the request stays open.
Answered_NotAwaited(st, res) == reqs

Pending == Len(reqs) > 0 /\ Last(reqs).status = "pending"

Answered(st, res) ==
    [reqs EXCEPT ![Len(reqs)].status = st, ![Len(reqs)].result = res]


(***************************************************************************)
(* Initial states: a directory, a target and a configuration.              *)
(***************************************************************************)
SanIdle ==
    /\ sFn = "idle" /\ sIn = NoBody /\ sOut = NoBody
    /\ heap = NoBody /\ sRet = "none"

NoManifest == [count |-> 0, workflows |-> <<>>]

\* No export takes part.
ExportIdle ==
    /\ source = NoBody /\ xcreds = FALSE /\ reportNames = {}
    /\ xpc = "idle" /\ xlist = <<>> /\ xidx = 0
    /\ outDir = NoBody /\ origin = NoBody /\ manifest = NoManifest
    /\ xexit = "none"

Init ==
    /\ kind \in {"report", "workflow"}
    /\ dirExists \in BOOLEAN
    /\ dir \in (IF dirExists THEN Directories(kind) ELSE {<<>>})
    /\ credsOk \in BOOLEAN
    /\ remote \in Remotes(kind)
    /\ nextFresh = 0
    /\ run = "first"
    /\ pc = "start"
    /\ files = <<>>
    /\ idx = 0
    /\ payload = NoBody
    /\ authToken = "none"
    /\ reqs = <<>>
    /\ created = 0
    /\ updated = 0
    /\ errors = 0
    /\ exitCode = "none"
    /\ faults = 0
    /\ parsed = {}
    /\ initRemote = remote
    /\ firstRemote = NoBody
    /\ firstClean = FALSE
    /\ summary = "none"
    /\ interrupted = FALSE
    /\ SanIdle
    /\ ExportIdle

\* process.exit(code), or main returning
Exit(at, code) == pc' = at /\ exitCode' = code

\* Mutant of SetupError: the check of URL and key is missing.
SetupError_NoCredentialCheck(creds, exists) == ~exists

\* The report import fails before or at its listing: no target preset or no
\* URL or key (getEnv, the check below it), or readdirSync throws.
SetupError(creds, exists) == ~creds \/ ~exists

\* The failures among the answers count against the budget.
CountFault(st) ==
    faults' = IF st \in Failures
                   \/ (Pending /\ st \in Faulty(Last(reqs)) \ Regular(remote, Last(reqs)))
                THEN faults + 1 ELSE faults

(***************************************************************************)
(* import-reports.js                                                       *)
(***************************************************************************)
\* The listing main keeps: files.filter(f => f.endsWith(".json"))
ReportFiles(d) == SelectSeq(d, LAMBDA e : endsWith(e.fname, ".json"))

\* Module top level and the head of main: getEnv, the check of URL and key,
\* readdirSync and the filter.
RStart ==
    /\ kind = "report" /\ pc = "start"
    /\ IF SetupError(credsOk, dirExists)
         THEN /\ Exit("setupfail", 1)
              /\ UNCHANGED <<files, idx, summary>>
         ELSE /\ files' = ReportFiles(dir)
              /\ idx' = 1
              /\ IF Len(ReportFiles(dir)) = 0
                   THEN Exit("done", 0) /\ summary' = "completed"
                   ELSE pc' = "loop" /\ UNCHANGED <<exitCode, summary>>
    /\ UNCHANGED <<kind, dirExists, dir, credsOk, remote, nextFresh, run, payload,
                   authToken, reqs, created, updated, errors, faults, parsed,
                   initRemote, firstRemote, firstClean, interrupted, sanVars, expVars>>

\* Mutant of findByName: the name filter is sent empty.
findByName_NoFilter(entry, name) ==
    Request(entry, "findByName", "GET", "", NoBody)

\* Mutant of findByName: the lookup is keyed by the file's own id, not its name.
findByName_ByLocalId(entry, name) ==
    Request(entry, "findByName", "GET", IdOf(entry.body), NoBody)

\* findByName's request: GET /api/v1/Report?maxSize=1&filters[name]={name}
findByName(entry, name) == Request(entry, "findByName", "GET", name, NoBody)

\* One pass of the for loop up to the await in findByName: JSON.parse, then
\* upsert's check of the name, sanitizeForImport and the lookup request.
RBegin ==
    /\ kind = "report" /\ pc = "loop"
    /\ LET report == files[idx].body IN
        /\ parsed' = parsed \cup {files[idx].fname}
        /\ IF NameMissing(report)
             THEN /\ Exit("aborted", 1)
                  /\ UNCHANGED <<payload, reqs>>
             ELSE /\ payload' = sanitizeForImport(report)
                  /\ reqs' = Append(reqs,
                        findByName(files[idx], sanitizeForImport(report)["name"]))
                  /\ pc' = "lookup"
                  /\ UNCHANGED exitCode
    /\ UNCHANGED <<kind, dirExists, dir, credsOk, remote, nextFresh, run, files, idx,
                   authToken, created, updated, errors, faults, initRemote, firstRemote,
                   firstClean, summary, interrupted, sanVars, expVars>>

\* Mutant of ReportWrite: the result of the lookup is ignored, always POST.
ReportWrite_AlwaysCreate(entry, existing, body) ==
    Request(entry, "create", "POST", "none", body)

\* Mutant of ReportWrite: the PATCH is addressed to the id of the local file.
ReportWrite_LocalId(entry, existing, body) ==
    IF existing # NoBody /\ Has(existing, "id")
      THEN Request(entry, "update", "PATCH", IdOf(entry.body), body)
      ELSE Request(entry, "create", "POST", "none", body)

\* upsert's choice of the write, given what findByName returned:
\* existing?.id ? PATCH /Report/{existing.id} : POST /Report
ReportWrite(entry, existing, body) ==
    IF existing # NoBody /\ Has(existing, "id")
      THEN Request(entry, "update", "PATCH", existing["id"], body)
      ELSE Request(entry, "create", "POST", "none", body)

\* The identifier of what findByName returned, "none" for null.
FoundId(existing) == IF existing = NoBody THEN "none" ELSE existing["id"]

\* The answer to the lookup arrives: api throws unless res.ok, findByName takes
\* list[0], upsert issues the write.
RLookupResp ==
    /\ kind = "report" /\ pc = "lookup" /\ Pending
    /\ \E st \in Answers(remote, Last(reqs), faults) :
        /\ CountFault(st)
        /\ IF st = "200"
             THEN \E existing \in
                      IF MatchesByName(remote, Last(reqs).target) = {}
                        THEN {NoBody}
                        ELSE { Entity(remote, id) :
                                 id \in MatchesByName(remote, Last(reqs).target) } :
                    /\ reqs' = Append(Answered(st, FoundId(existing)),
                                       ReportWrite(files[idx], existing, payload))
                    /\ pc' = "write"
                    /\ UNCHANGED exitCode
             ELSE /\ reqs' = Answered(st, "none")
                  /\ Exit("aborted", 1)
    /\ UNCHANGED <<kind, dirExists, dir, credsOk, remote, nextFresh, run, files, idx,
                   payload, authToken, created, updated, errors, parsed, initRemote, firstRemote,
                   firstClean, summary, interrupted, sanVars, expVars>>

\* The answer to the write arrives: api throws unless res.ok; else the line
\* "Updated" or "Created" is logged and the loop moves on.
RWriteResp ==
    /\ kind = "report" /\ pc = "write" /\ Pending
    /\ \E st \in Answers(remote, Last(reqs), faults) :
        /\ CountFault(st)
        /\ reqs' = Answered(st, ResultId(remote, Last(reqs), st, nextFresh))
        /\ remote' = Applied(remote, Last(reqs), st, nextFresh)
        /\ nextFresh' = IF st = "200" /\ Last(reqs).purpose = "create"
                             /\ ~Has(Last(reqs).body, "id")
                          THEN nextFresh + 1 ELSE nextFresh
        /\ IF st = "200"
             THEN /\ updated' = IF Last(reqs).purpose = "update"
                                  THEN updated + 1 ELSE updated
                  /\ created' = IF Last(reqs).purpose = "create"
                                  THEN created + 1 ELSE created
                  /\ idx' = idx + 1
                  /\ IF idx + 1 > Len(files)
                       THEN Exit("done", 0) /\ summary' = "completed"
                       ELSE pc' = "loop" /\ UNCHANGED <<exitCode, summary>>
             ELSE /\ Exit("aborted", 1)
                  /\ UNCHANGED <<created, updated, idx, summary>>
    /\ UNCHANGED <<kind, dirExists, dir, credsOk, run, files, payload, authToken,
                   errors, parsed, initRemote, firstRemote, firstClean, interrupted,
                   sanVars, expVars>>


(***************************************************************************)
(* import-workflows.js                                                     *)
(***************************************************************************)
\* files.filter(f => f.endsWith('.json') && !f.startsWith('_'))
WorkflowFiles(d) ==
    SelectSeq(d, LAMBDA e : endsWith(e.fname, ".json") /\ ~startsWith(e.fname, "_"))

\* The head of main up to the await in authenticate: the directory check, the
\* listing, the check of user and password, the login request.
WStart ==
    /\ kind = "workflow" /\ pc = "start"
    /\ IF ~dirExists
         THEN /\ Exit("skipped", 0)
              /\ UNCHANGED <<files, idx, reqs>>
         ELSE /\ files' = WorkflowFiles(dir)
              /\ IF Len(WorkflowFiles(dir)) = 0
                   THEN /\ Exit("skipped", 0)
                        /\ UNCHANGED <<idx, reqs>>
                   ELSE IF ~credsOk
                     THEN /\ Exit("setupfail", 1)
                          /\ UNCHANGED <<idx, reqs>>
                     ELSE /\ reqs' = Append(reqs,
                                Request(NoFile, "auth", "GET", "App/user", NoBody))
                          /\ idx' = 0
                          /\ pc' = "auth"
                          /\ UNCHANGED exitCode
    /\ UNCHANGED <<kind, dirExists, dir, credsOk, remote, nextFresh, run, payload,
                   authToken, created, updated, errors, faults, parsed, initRemote, firstRemote,
                   firstClean, summary, interrupted, sanVars, expVars>>

\* apiRequest's mapping of an answer: 2xx resolves with the body, 404 resolves
\* with null, anything else (and a transport error) rejects.
Rejects(st) == st \notin {"200", "404"}

\* authenticate, after the answer: the token if the response has one, else the
\* base64 string; a rejection is rethrown as "Authentication failed".
authenticate(st, hasToken) ==
    IF Rejects(st) THEN "failed"
    ELSE IF st = "200" /\ hasToken THEN "token"
    ELSE "authString"

\* The answer to the login arrives; main exits 1 when authenticate threw.
WAuthResp ==
    /\ kind = "workflow" /\ pc = "auth" /\ Pending
    /\ \E st \in Answers(remote, Last(reqs), faults), hasToken \in BOOLEAN :
        /\ (st # "200" => ~hasToken)
        /\ CountFault(st)
        /\ reqs' = Answered(st, IF hasToken THEN "token" ELSE "none")
        /\ IF authenticate(st, hasToken) = "failed"
             THEN /\ Exit("setupfail", 1)
                  /\ UNCHANGED <<authToken, idx>>
             ELSE /\ authToken' = authenticate(st, hasToken)
                  /\ idx' = 1
                  /\ pc' = "loop"
                  /\ UNCHANGED exitCode
    /\ UNCHANGED <<kind, dirExists, dir, credsOk, remote, nextFresh, run, files,
                   payload, created, updated, errors, parsed, initRemote, firstRemote,
                   firstClean, summary, interrupted, sanVars, expVars>>

\* One pass of the for loop up to the await in entityExists: JSON.parse, the
\* id and the name of the workflow, the lookup request.
WBegin ==
    /\ kind = "workflow" /\ pc = "loop"
    /\ LET workflowData == files[idx].body IN
        /\ parsed' = parsed \cup {files[idx].fname}
        /\ payload' = workflowData
        /\ reqs' = Append(reqs,
              Request(files[idx], "entityExists", "GET", IdOf(workflowData), NoBody))
        /\ pc' = "lookup"
    /\ UNCHANGED <<kind, dirExists, dir, credsOk, remote, nextFresh, run, files, idx,
                   authToken, created, updated, errors, exitCode, faults,
                   initRemote, firstRemote, firstClean, summary, interrupted, sanVars, expVars>>

\* Mutant of entityExists: the test of the result is inverted (result === null).
entityExists_Inverted(st) ==
    IF Rejects(st) THEN FALSE
    ELSE st = "404"

\* entityExists, after the answer: result !== null, and false when apiRequest
\* rejected.
entityExists(st) ==
    IF Rejects(st) THEN FALSE
    ELSE st # "404"

\* main's choice of the write: PUT /Workflow/{id} if exists, else POST /Workflow
WorkflowWrite(entry, exists, workflowData) ==
    IF exists
      THEN Request(entry, "update", "PUT", IdOf(workflowData), workflowData)
      ELSE Request(entry, "create", "POST", "none", workflowData)

\* The answer to the lookup arrives and main issues the write.
WLookupResp ==
    /\ kind = "workflow" /\ pc = "lookup" /\ Pending
    /\ \E st \in Answers(remote, Last(reqs), faults) :
        /\ CountFault(st)
        /\ reqs' = Append(Answered(st, ResultId(remote, Last(reqs), st, nextFresh)),
                           WorkflowWrite(files[idx], entityExists(st), payload))
        /\ pc' = "write"
    /\ UNCHANGED <<kind, dirExists, dir, credsOk, remote, nextFresh, run, files, idx,
                   payload, authToken, created, updated, errors, exitCode, parsed,
                   initRemote, firstRemote, firstClean, summary, interrupted, sanVars, expVars>>

\* Mutant of Advance: a file whose write was rejected is taken up again.
Advance_RetryOnError(i, st) == IF Rejects(st) THEN i ELSE i + 1

\* for (const file of files): the loop moves to the next file, whatever the
\* answer to the write was.
Advance(i, st) == i + 1

\* The answer to the write arrives: updated++ or created++ unless apiRequest
\* rejected, which the catch turns into errors++; after the last file the
\* summary is printed and main returns.
WWriteResp ==
    /\ kind = "workflow" /\ pc = "write" /\ Pending
    /\ \E st \in Answers(remote, Last(reqs), faults) :
        /\ CountFault(st)
        /\ reqs' = Answered(st, ResultId(remote, Last(reqs), st, nextFresh))
        /\ remote' = Applied(remote, Last(reqs), st, nextFresh)
        /\ nextFresh' = IF st = "200" /\ Last(reqs).purpose = "create"
                             /\ ~Has(Last(reqs).body, "id")
                          THEN nextFresh + 1 ELSE nextFresh
        /\ updated' = IF ~Rejects(st) /\ Last(reqs).purpose = "update"
                        THEN updated + 1 ELSE updated
        /\ created' = IF ~Rejects(st) /\ Last(reqs).purpose = "create"
                        THEN created + 1 ELSE created
        /\ errors' = IF Rejects(st) THEN errors + 1 ELSE errors
        /\ idx' = Advance(idx, st)
        /\ IF Advance(idx, st) > Len(files)
             THEN Exit("done", 0) /\ summary' = "counts"
             ELSE pc' = "loop" /\ UNCHANGED <<exitCode, summary>>
    /\ UNCHANGED <<kind, dirExists, dir, credsOk, run, files, payload, authToken,
                   parsed, initRemote, firstRemote, firstClean, interrupted, sanVars, expVars>>

(***************************************************************************)
(* The operator runs the script again on the same directory.               *)
(***************************************************************************)
Terminal == pc \in {"done", "aborted", "setupfail", "skipped", "interrupted"}

Rerun ==
    /\ Terminal /\ run = "first"
    /\ run' = "second"
    /\ firstRemote' = remote
    /\ firstClean' = (pc = "done" /\ errors = 0)
    /\ pc' = "start"
    /\ files' = <<>>
    /\ idx' = 0
    /\ payload' = NoBody
    /\ authToken' = "none"
    /\ created' = 0
    /\ updated' = 0
    /\ errors' = 0
    /\ exitCode' = "none"
    /\ summary' = "none"
    /\ interrupted' = (pc = "interrupted")
    /\ UNCHANGED <<kind, dirExists, dir, credsOk, remote, nextFresh, reqs, faults,
                   parsed, initRemote, sanVars, expVars>>

\* The operator interrupts the first run: the process stops where it stands.
\* A write that is in flight has reached the remote, or has not.
Interrupt ==
    /\ run = "first" /\ pc \in {"auth", "loop", "lookup", "write"}
    /\ \E reached \in BOOLEAN :
        /\ reached => /\ pc = "write" /\ Pending
                      /\ "200" \in Answers(remote, Last(reqs), faults)
        /\ remote' = IF reached
                        THEN Applied(remote, Last(reqs), "200", nextFresh)
                        ELSE remote
        /\ nextFresh' = IF reached /\ Last(reqs).purpose = "create"
                             /\ ~Has(Last(reqs).body, "id")
                          THEN nextFresh + 1 ELSE nextFresh
        /\ reqs' = IF Pending
                     THEN Answered("interrupted",
                                   IF reached
                                     THEN ResultId(remote, Last(reqs), "200", nextFresh)
                                     ELSE "none")
                     ELSE reqs
    /\ Exit("interrupted", 130)
    /\ UNCHANGED <<kind, dirExists, dir, credsOk, run, files, idx, payload,
                   authToken, created, updated, errors, faults, parsed, initRemote,
                   firstRemote, firstClean, summary, interrupted, sanVars, expVars>>

Next ==
    \/ RStart \/ RBegin \/ RLookupResp \/ RWriteResp
    \/ WStart \/ WAuthResp \/ WBegin \/ WLookupResp \/ WWriteResp
    \/ Rerun \/ Interrupt

Spec == Init /\ [][Next]_vars


(***************************************************************************)
(* The sanitizers alone, applied to every snapshot over the fields below.  *)
(***************************************************************************)
SanFields ==
    {"id", "name", "createdAt", "modifiedAt", "createdById", "modifiedById",
     "createdByName", "modifiedByName", "entityId", "entityType", "isInternal",
     "data"}

SanValue(f, variant) ==
    IF f \in NestedFields
      THEN (IF variant = "x" THEN Data1 ELSE Data2)
      ELSE (IF variant = "x" THEN "x" ELSE "y")

SanInputs ==
    { [f \in S |-> SanValue(f, variant)] : S \in SUBSET SanFields, variant \in {"x", "y"} }

ImportIdle ==
    /\ kind = "none" /\ dirExists = FALSE /\ dir = <<>> /\ credsOk = FALSE
    /\ remote = NoBody /\ nextFresh = 0 /\ run = "first" /\ pc = "idle"
    /\ files = <<>> /\ idx = 0 /\ payload = NoBody /\ authToken = "none"
    /\ reqs = <<>> /\ created = 0 /\ updated = 0 /\ errors = 0
    /\ exitCode = "none" /\ faults = 0 /\ parsed = {} /\ initRemote = NoBody
    /\ firstRemote = NoBody
    /\ firstClean = FALSE /\ summary = "none" /\ interrupted = FALSE

InitSan ==
    /\ ImportIdle
    /\ ExportIdle
    /\ sFn = "none"
    /\ sIn \in SanInputs
    /\ sOut = NoBody
    /\ heap = Load(sIn)
    /\ sRet = "none"

\* export-reports.js main: const out = sanitize(full)
ApplySanitize ==
    /\ sFn = "none"
    /\ sFn' = "sanitize"
    /\ sOut' = sanitize(sIn)
    /\ heap' = sanitizeInMemory(heap, "report").heap
    /\ sRet' = sanitizeInMemory(heap, "report").ret
    /\ UNCHANGED <<sIn, importVars, expVars>>

\* import-reports.js upsert: const payload = sanitizeForImport(report)
ApplySanitizeForImport ==
    /\ sFn = "none"
    /\ sFn' = "sanitizeForImport"
    /\ sOut' = sanitizeForImport(sIn)
    /\ heap' = sanitizeForImportInMemory(heap, "report").heap
    /\ sRet' = sanitizeForImportInMemory(heap, "report").ret
    /\ UNCHANGED <<sIn, importVars, expVars>>

\* export-workflows.js main: const cleaned = cleanForExport(fullWorkflow)
ApplyCleanForExport ==
    /\ sFn = "none"
    /\ sFn' = "cleanForExport"
    /\ sOut' = cleanForExport(sIn)
    /\ heap' = cleanForExportInMemory(heap, "report").heap
    /\ sRet' = cleanForExportInMemory(heap, "report").ret
    /\ UNCHANGED <<sIn, importVars, expVars>>

NextSan == ApplySanitize \/ ApplySanitizeForImport \/ ApplyCleanForExport

SpecSan == InitSan /\ [][NextSan]_vars


(***************************************************************************)
(* The export scripts (export-reports.js, export-workflows.js) run against *)
(* a source instance, and the import of what they wrote into a target.     *)
(***************************************************************************)
\* The characters of the names in use.
Spelling ==
    ("" :> <<>>) @@ ("A" :> <<"A">>) @@ ("B" :> <<"B">>) @@ ("C" :> <<"C">>)
    @@ ("Z" :> <<"Z">>) @@ ("Q 1" :> <<"Q", " ", "1">>)
    @@ ("Q/1" :> <<"Q", "/", "1">>) @@ ("B-2 " :> <<"B", "-", "2", " ">>)

Alphabet == {"A", "B", "C", "Z", "Q", "1", "2", "_", "-", " ", "/"}

\* \w among the characters in use
WordChars == {"A", "B", "C", "Z", "Q", "1", "2", "_"}

RECURSIVE ReplaceRuns(_, _, _)
\* s.replace(/[class]+/g, "_") from position i on: every maximal run of
\* characters of the class becomes one "_".
ReplaceRuns(s, class, i) ==
    IF i > Len(s) THEN <<>>
    ELSE (IF s[i] \in class
            THEN (IF i > 1 /\ s[i - 1] \in class THEN <<>> ELSE <<"_">>)
            ELSE <<s[i]>>)
         \o ReplaceRuns(s, class, i + 1)

RECURSIVE TrimLeft(_)
\* s.replace(/^_+/, "")
TrimLeft(s) == IF Len(s) > 0 /\ s[1] = "_" THEN TrimLeft(Tail(s)) ELSE s

RECURSIVE TrimRight(_)
\* s.replace(/_+$/, "")
TrimRight(s) ==
    IF Len(s) > 0 /\ s[Len(s)] = "_" THEN TrimRight(SubSeq(s, 1, Len(s) - 1)) ELSE s

\* export-reports.js fileNameFor
fileNameFor(report) ==
    LET s1 == ReplaceRuns(Spelling[report["name"]], Alphabet \ (WordChars \cup {"-"}), 1)
        s2 == ReplaceRuns(s1, {"_"}, 1)
    IN  TrimRight(TrimLeft(s2))

ManifestName == <<"_", "manifest", ".json">>

\* The reports of a source instance.
SourceReports ==
    ("s1" :> (("name" :> "Q 1") @@ ("createdAt" :> "t1") @@ ("data" :> Data1)))
    @@ ("s2" :> (("name" :> "Q/1") @@ ("modifiedById" :> "u1") @@ ("data" :> Data2)))
    @@ ("s3" :> (("name" :> "A") @@ ("entityType" :> "Lead") @@ ("data" :> Data1)))
    @@ ("s4" :> (("name" :> "B-2 ") @@ ("data" :> Data2)))

\* The workflows of a source instance.
SourceWorkflows ==
    ("w1" :> (("name" :> "A") @@ ("createdAt" :> "t1") @@ ("createdByName" :> "Admin")
              @@ ("isActive" :> "true") @@ ("data" :> Data1)))
    @@ ("w3" :> (("name" :> "B") @@ ("entityType" :> "Lead") @@ ("data" :> Data2)))
    @@ ("w5" :> (("name" :> "A") @@ ("modifiedAt" :> "t2") @@ ("data" :> Data2)))
    @@ ("w6" :> (("name" :> "C") @@ ("isActive" :> "false")))

SourceCatalogue(k) == IF k = "report" THEN SourceReports ELSE SourceWorkflows

\* The source instances an export may run against.
Sources(k) ==
    { [id \in S |-> SourceCatalogue(k)[id]] :
        S \in { T \in SUBSET DOMAIN SourceCatalogue(k) : Cardinality(T) <= MaxFiles } }

\* The order in which the source lists its entities.
SourceOrder == <<"s1", "s2", "s3", "s4", "w1", "w3", "w5", "w6">>

\* GET /api/v1/Report?maxSize=200, GET /api/v1/Workflow?maxSize=500 : the list
ListOf(src) == SelectSeq(SourceOrder, LAMBDA id : id \in DOMAIN src)

\* The answers the source can give to a request of the export.
SourceAnswers(purpose, f) ==
    (IF f < MaxFaults THEN Failures ELSE {})
    \cup (IF purpose = "auth" THEN {"200", "401"} ELSE {"200"})

\* The file names an export can write, in the order readdirSync lists them.
NameOrder ==
    << ManifestName, <<"A", ".json">>, <<"B", "-", "2", ".json">>,
       <<"Q", "_", "1", ".json">>, <<"w1", ".json">>, <<"w3", ".json">>,
       <<"w5", ".json">>, <<"w6", ".json">> >>

RECURSIVE ListDir(_, _)
\* The directory out as the import reads it: its entries from position i of
\* NameOrder on.
ListDir(out, i) ==
    IF i > Len(NameOrder) THEN <<>>
    ELSE (IF NameOrder[i] \in DOMAIN out
            THEN <<[fname |-> NameOrder[i], body |-> out[NameOrder[i]]]>>
            ELSE <<>>)
         \o ListDir(out, i + 1)

\* writeFileSync: the file is created or overwritten.
WriteFile(out, fn, content) == (fn :> content) @@ out

\* process.exit(code) of the export, or its main returning
XExit(at, code) == xpc' = at /\ xexit' = code

\* The variables of the import an export leaves alone.
importQuiet == <<kind, dir, credsOk, remote, nextFresh, run, pc, files, idx,
                 payload, authToken, reqs, created, updated, errors, exitCode,
                 parsed, initRemote, firstRemote, firstClean, summary, interrupted>>

InitSync ==
    /\ kind \in {"report", "workflow"}
    /\ source \in Sources(kind)
    /\ xcreds \in BOOLEAN
    /\ reportNames \in (IF kind = "report" THEN {{}, {"A", "Q 1", "Q/1"}} ELSE {{}})
    /\ xpc = "start" /\ xlist = <<>> /\ xidx = 0
    /\ outDir = NoBody /\ origin = NoBody /\ manifest = NoManifest
    /\ xexit = "none"
    /\ dirExists = FALSE /\ dir = <<>> /\ credsOk = TRUE
    /\ remote \in Remotes(kind)
    /\ nextFresh = 0 /\ run = "first" /\ pc = "wait"
    /\ files = <<>> /\ idx = 0 /\ payload = NoBody /\ authToken = "none"
    /\ reqs = <<>> /\ created = 0 /\ updated = 0 /\ errors = 0
    /\ exitCode = "none" /\ faults = 0 /\ parsed = {}
    /\ initRemote = remote /\ firstRemote = NoBody /\ firstClean = FALSE
    /\ summary = "none" /\ interrupted = FALSE
    /\ SanIdle

\* export-reports.js, module top level and the head of main: the check of URL
\* and key, mkdirSync, the request for the list.
ERStart ==
    /\ kind = "report" /\ xpc = "start"
    /\ IF ~xcreds
         THEN XExit("failed", 1) /\ UNCHANGED dirExists
         ELSE dirExists' = TRUE /\ xpc' = "list" /\ UNCHANGED xexit
    /\ UNCHANGED <<source, xcreds, reportNames, xlist, xidx, outDir, origin,
                   manifest, faults, importQuiet, sanVars>>

\* The list arrives: api throws unless res.ok; the filter by REPORT_NAMES; the
\* request for the first report.
ERListResp ==
    /\ kind = "report" /\ xpc = "list"
    /\ \E st \in SourceAnswers("list", faults) :
        /\ CountFault(st)
        /\ IF st = "200"
             THEN LET reports == ListOf(source)
                      filtered == IF reportNames # {}
                                    THEN SelectSeq(reports,
                                           LAMBDA id : source[id]["name"] \in reportNames)
                                    ELSE reports
                  IN  /\ xlist' = filtered
                      /\ xidx' = 1
                      /\ IF Len(filtered) = 0
                           THEN XExit("done", 0)
                           ELSE xpc' = "fetch" /\ UNCHANGED xexit
             ELSE XExit("failed", 1) /\ UNCHANGED <<xlist, xidx>>
    /\ UNCHANGED <<source, xcreds, reportNames, outDir, origin, manifest,
                   dirExists, importQuiet, sanVars>>

\* A report arrives: sanitize, fileNameFor, writeFileSync, and the request
\* for the next report.
ERFetchResp ==
    /\ kind = "report" /\ xpc = "fetch"
    /\ \E st \in SourceAnswers("fetch", faults) :
        /\ CountFault(st)
        /\ IF st = "200"
             THEN LET full == Entity(source, xlist[xidx])
                      out == sanitize(full)
                      fn == fileNameFor(out) \o <<".json">>
                  IN  /\ outDir' = WriteFile(outDir, fn, out)
                      /\ origin' = WriteFile(origin, fn, xlist[xidx])
                      /\ xidx' = xidx + 1
                      /\ IF xidx = Len(xlist)
                           THEN XExit("done", 0)
                           ELSE UNCHANGED <<xpc, xexit>>
             ELSE XExit("failed", 1) /\ UNCHANGED <<outDir, origin, xidx>>
    /\ UNCHANGED <<source, xcreds, reportNames, xlist, manifest, dirExists,
                   importQuiet, sanVars>>

\* export-workflows.js main up to the await in authenticate: the check of
\* user and password.
EWStart ==
    /\ kind = "workflow" /\ xpc = "start"
    /\ IF ~xcreds
         THEN XExit("failed", 1)
         ELSE xpc' = "auth" /\ UNCHANGED xexit
    /\ UNCHANGED <<source, xcreds, reportNames, xlist, xidx, outDir, origin,
                   manifest, dirExists, faults, importQuiet, sanVars>>

\* The answer to the login arrives: apiRequest rejects unless 2xx and main
\* exits 1; else the request for the list.
EWAuthResp ==
    /\ kind = "workflow" /\ xpc = "auth"
    /\ \E st \in SourceAnswers("auth", faults) :
        /\ CountFault(st)
        /\ IF st = "200"
             THEN xpc' = "list" /\ UNCHANGED xexit
             ELSE XExit("failed", 1)
    /\ UNCHANGED <<source, xcreds, reportNames, xlist, xidx, outDir, origin,
                   manifest, dirExists, importQuiet, sanVars>>

\* The list arrives: "No workflows found" ends the export; else mkdirSync, the
\* manifest object, and the request for the first workflow.
EWListResp ==
    /\ kind = "workflow" /\ xpc = "list"
    /\ \E st \in SourceAnswers("list", faults) :
        /\ CountFault(st)
        /\ IF st = "200"
             THEN IF Len(ListOf(source)) = 0
                    THEN /\ XExit("done", 0)
                         /\ UNCHANGED <<xlist, xidx, manifest, dirExists>>
                    ELSE /\ xlist' = ListOf(source)
                         /\ xidx' = 1
                         /\ dirExists' = TRUE
                         /\ manifest' = [count |-> Len(ListOf(source)), workflows |-> <<>>]
                         /\ xpc' = "fetch" /\ UNCHANGED xexit
             ELSE XExit("failed", 1) /\ UNCHANGED <<xlist, xidx, manifest, dirExists>>
    /\ UNCHANGED <<source, xcreds, reportNames, outDir, origin, importQuiet, sanVars>>

\* Mutant of ManifestEntry: the entry names the file after the workflow's name.
ManifestEntry_FileByName(src, id) ==
    [id |-> id, name |-> src[id]["name"], file |-> <<src[id]["name"], ".json">>]

\* The entry manifest.workflows.push adds for the workflow id of the list.
ManifestEntry(src, id) ==
    [id |-> id, name |-> src[id]["name"], file |-> <<id, ".json">>]

\* The content of _manifest.json
ManifestFile(m) == ("count" :> m.count) @@ ("workflows" :> m.workflows)

\* A workflow arrives: cleanForExport, writeFileSync of `${workflow.id}.json`,
\* the manifest entry; after the last one _manifest.json is written.
EWFetchResp ==
    /\ kind = "workflow" /\ xpc = "fetch"
    /\ \E st \in SourceAnswers("fetch", faults) :
        /\ CountFault(st)
        /\ IF st = "200"
             THEN LET fullWorkflow == Entity(source, xlist[xidx])
                      cleaned == cleanForExport(fullWorkflow)
                      filename == <<xlist[xidx], ".json">>
                      written == WriteFile(outDir, filename, cleaned)
                      pushed == [manifest EXCEPT !.workflows =
                                   Append(@, ManifestEntry(source, xlist[xidx]))]
                  IN  /\ manifest' = pushed
                      /\ origin' = WriteFile(origin, filename, xlist[xidx])
                      /\ xidx' = xidx + 1
                      /\ IF xidx = Len(xlist)
                           THEN /\ outDir' = WriteFile(written, ManifestName,
                                                       ManifestFile(pushed))
                                /\ XExit("done", 0)
                           ELSE /\ outDir' = written
                                /\ UNCHANGED <<xpc, xexit>>
             ELSE XExit("failed", 1) /\ UNCHANGED <<outDir, origin, manifest, xidx>>
    /\ UNCHANGED <<source, xcreds, reportNames, xlist, dirExists, importQuiet, sanVars>>

\* The exported directory is taken to the target environment, where the
\* import is started on it.
Handover ==
    /\ xpc = "done" /\ pc = "wait"
    /\ dir' = ListDir(outDir, 1)
    /\ pc' = "start"
    /\ UNCHANGED <<kind, dirExists, credsOk, remote, nextFresh, run, files, idx,
                   payload, authToken, reqs, created, updated, errors, exitCode,
                   faults, parsed, initRemote, firstRemote, firstClean, summary,
                   interrupted, sanVars, expVars>>

NextExport ==
    \/ ERStart \/ ERListResp \/ ERFetchResp
    \/ EWStart \/ EWAuthResp \/ EWListResp \/ EWFetchResp

NextSync == NextExport \/ Handover \/ Next

SpecSync == InitSync /\ [][NextSync]_vars


(***************************************************************************)
(* Properties.                                                             *)
(***************************************************************************)
WritePurposes == {"create", "update"}

LookupPurposes == {"findByName", "entityExists"}

EnvFields == {"createdAt", "modifiedAt", "createdById", "modifiedById"}

\* The batch carries the key its identity strategy needs: every report a
\* name, every workflow an id.
ValidBatch ==
    \A i \in 1..Len(files) :
        IF kind = "report" THEN ~NameMissing(files[i].body)
        ELSE Has(files[i].body, "id")

\* No write request was answered with a status other than 2xx.
WritesAnswered2xx ==
    \A j \in 1..Len(reqs) :
        reqs[j].purpose \in WritePurposes
        => reqs[j].status \in {"200", "pending", "interrupted"}

\* Both runs of the batch went through every file without a failure.
BothRunsClean ==
    /\ run = "second" /\ pc = "done" /\ errors = 0 /\ firstClean /\ ValidBatch
    /\ WritesAnswered2xx

\* The requests of purpose p made in run r that were answered 200.
Succeeded(r, p) ==
    { j \in 1..Len(reqs) :
        reqs[j].run = r /\ reqs[j].purpose = p /\ reqs[j].status = "200" }

\* C1: idempotence of the import batch, reports and workflows: when a valid
\* batch was imported twice and both runs completed without a failure, the
\* remote after the second run equals the remote after the first run and the
\* second run has created nothing (every entity was updated in place).
C1_Idempotence ==
    BothRunsClean =>
        /\ remote = firstRemote
        /\ created = 0
        /\ Succeeded("second", "create") = {}
        /\ updated = Len(files)

\* C1 witness: a clean second run of two or more reports, the first run of
\* which created a report that the second run updated.
C1_Witness ==
    /\ BothRunsClean /\ kind = "report" /\ Len(files) >= 2
    /\ Succeeded("first", "create") # {}
    /\ Succeeded("second", "update") # {}
    /\ remote # initRemote

\* C2 (as claimed): a failure on one entity is counted and does not stop the
\* batch: when the script ends after its setup, every file of the listing has
\* been processed and each one is counted as created, updated or failed.
C2_PartialFailureIsolation ==
    (run = "first" /\ pc \in {"done", "aborted"}) =>
        /\ \A i \in 1..Len(files) : files[i].fname \in parsed
        /\ created + updated + errors = Len(files)


\* The creates of run r that reached the remote: those answered 200, and those
\* in flight at the interruption that the remote carried out.
CreatesReached(r) ==
    Succeeded(r, "create")
    \cup { j \in 1..Len(reqs) :
             /\ reqs[j].run = r /\ reqs[j].purpose = "create"
             /\ reqs[j].status = "interrupted" /\ reqs[j].result # "none" }

\* The write requests made for the same file in the same run as request j.
WritesFor(j) ==
    { k \in 1..Len(reqs) :
        /\ reqs[k].run = reqs[j].run /\ reqs[k].file = reqs[j].file
        /\ reqs[k].purpose \in WritePurposes }

\* C3: create-then-match for reports: an answered lookup is followed by
\* exactly one write for that file, a POST (and no PATCH) when the lookup found
\* no report of the name; each create that reaches the remote adds exactly
\* one report to it, each answered one adds one to created; and every write
\* the second run makes for a name the first run created is a PATCH addressed
\* to the identifier of the report created.
C3_CreateThenMatch ==
    kind = "report" =>
        /\ \A j \in 1..Len(reqs) :
              (reqs[j].purpose = "findByName" /\ reqs[j].status = "200")
              => /\ j < Len(reqs)
                 /\ WritesFor(j) = {j + 1}
                 /\ reqs[j].result = "none"
                      => reqs[j + 1].purpose = "create" /\ reqs[j + 1].method = "POST"
        /\ \A j \in CreatesReached("first") :
              \A k \in 1..Len(reqs) :
                  (reqs[k].run = "second" /\ reqs[k].purpose \in WritePurposes
                      /\ reqs[k].body["name"] = reqs[j].body["name"])
                  => /\ reqs[k].purpose = "update" /\ reqs[k].method = "PATCH"
                     /\ reqs[k].target = reqs[j].result
        /\ created = Cardinality(Succeeded(run, "create"))
        /\ updated = Cardinality(Succeeded(run, "update"))
        /\ Cardinality(DOMAIN remote) =
              Cardinality(DOMAIN initRemote)
              + Cardinality(CreatesReached("first"))
              + Cardinality(CreatesReached("second"))

\* C3 witness: a batch of one new report, created = 1 in the first run, and
\* updated = 1, created = 0 in the second, the PATCH going to the created id.
C3_Witness ==
    /\ kind = "report" /\ run = "second" /\ pc = "done" /\ Len(files) = 1
    /\ created = 0 /\ updated = 1
    /\ \E j \in Succeeded("first", "create"), k \in Succeeded("second", "update") :
          /\ reqs[k].target = reqs[j].result
          /\ reqs[j].result \notin DOMAIN initRemote

\* C4 (as claimed): the body of every create or update request, of reports and
\* of workflows, contains none of createdAt, modifiedAt, createdById,
\* modifiedById.
C4_WritesAreSanitized ==
    \A j \in 1..Len(reqs) :
        reqs[j].method \in {"POST", "PATCH", "PUT"}
        => DOMAIN reqs[j].body \cap EnvFields = {}

\* The fields the claim excludes, per sanitizer.
ClaimedExcluded(fn) ==
    IF fn = "sanitize" THEN {"id"} \cup EnvFields
    ELSE IF fn = "sanitizeForImport"
      THEN {"id"} \cup EnvFields \cup {"entityId", "entityType", "isInternal"}
    ELSE EnvFields

\* The same, with the two name fields cleanForExport removes as well.
AmendedExcluded(fn) ==
    IF fn = "cleanForExport"
      THEN EnvFields \cup {"createdByName", "modifiedByName"}
      ELSE ClaimedExcluded(fn)

\* The result holds none of the fields of excl and every other field of the
\* input, unchanged.
Complete(excl) ==
    /\ DOMAIN sOut \cap excl = {}
    /\ \A f \in DOMAIN sIn \ excl : Has(sOut, f) /\ sOut[f] = sIn[f]

\* C5 (as claimed): each sanitizer removes exactly its excluded fields (id on
\* report export and import, the four environment fields always, entityId,
\* entityType, isInternal on report import) and keeps every other field.
C5_CompleteAsClaimed ==
    sFn \in {"sanitize", "sanitizeForImport", "cleanForExport"}
    => Complete(ClaimedExcluded(sFn))

\* C5 (amended): as claimed, except that cleanForExport also removes
\* createdByName and modifiedByName; every other field is kept unchanged.
C5_SanitizationComplete ==
    sFn \in {"sanitize", "sanitizeForImport", "cleanForExport"}
    => Complete(AmendedExcluded(sFn))

\* C5 witness: cleanForExport applied to a snapshot holding excluded fields,
\* the two name fields, an id and nested data; id and data are kept.
C5_Witness ==
    /\ sFn = "cleanForExport"
    /\ {"id", "data", "name", "createdAt", "createdByName", "modifiedByName",
        "entityType"} \subseteq DOMAIN sIn
    /\ {"id", "data", "name", "entityType"} \subseteq DOMAIN sOut
    /\ ~Has(sOut, "createdByName")

\* C6 (as claimed): no request (lookup, create, update) is made for a
\* snapshot whose name is missing or empty, and it is not counted as created
\* or updated.
C6_NameValidated ==
    \A j \in 1..Len(reqs) :
        reqs[j].purpose \in LookupPurposes \cup WritePurposes
        => ~NameMissing(reqs[j].src)

\* C7 (as claimed): no file whose name starts with "_" is parsed as an entity,
\* and no request is made for such a file.
C7_UnderscoreFilesExcluded ==
    /\ \A f \in parsed : ~startsWith(f, "_")
    /\ \A j \in 1..Len(reqs) : ~startsWith(reqs[j].file, "_")

\* C8: name-based identity for reports: while a report write is in flight, if
\* a remote report r carries the snapshot's name then the write is a PATCH
\* addressed to such an r, whatever id the local file holds; if none does, the
\* write is a POST.
C8_NameBasedIdentity ==
    (kind = "report" /\ pc = "write" /\ Pending) =>
        LET q == Last(reqs) IN
        IF MatchesByName(remote, q.src["name"]) # {}
          THEN /\ q.purpose = "update" /\ q.method = "PATCH"
               /\ q.target \in MatchesByName(remote, q.src["name"])
          ELSE q.purpose = "create" /\ q.method = "POST"

\* C8 witness: a PATCH in flight to r1, for a file whose own id is r2, while
\* the remote also holds a report r2 of another name.
C8_Witness ==
    /\ kind = "report" /\ pc = "write" /\ Pending
    /\ Last(reqs).purpose = "update"
    /\ Has(Last(reqs).src, "id")
    /\ Last(reqs).src["id"] \in DOMAIN remote
    /\ Last(reqs).src["id"] # Last(reqs).target
    /\ remote[Last(reqs).target]["name"] = Last(reqs).src["name"]

\* C9 (as claimed): for a workflow of local id w, an update is issued exactly
\* when the remote holds id w and a create exactly when it does not.
C9_IdBasedResolution ==
    (kind = "workflow" /\ pc = "write" /\ Pending) =>
        LET q == Last(reqs) IN
        /\ q.purpose = "update" <=> IdOf(q.src) \in DOMAIN remote
        /\ q.purpose = "create" <=> IdOf(q.src) \notin DOMAIN remote

\* C10 (as claimed): when the identity lookup of an entity fails (a transport
\* error or a non-2xx answer other than 404), no create or update request is
\* made for that entity in that run.
C10_LookupErrorPropagates ==
    \A j \in 1..Len(reqs) :
        (reqs[j].purpose \in LookupPurposes /\ reqs[j].status \in Failures)
        => WritesFor(j) = {}


\* C11 (as claimed): once setup has succeeded, the import ends with exit
\* status 0 whatever number of entities failed, and has printed the summary
\* of the created, updated and failed counts.
C11_ExitZeroWithSummary ==
    pc \in {"done", "aborted"} => exitCode = 0 /\ summary = "counts"

\* No entity has been processed: no file parsed, no request made for a file.
NothingProcessed ==
    /\ parsed = {}
    /\ \A j \in 1..Len(reqs) : reqs[j].purpose \notin LookupPurposes \cup WritePurposes

\* C12 (as claimed): when credentials or the source directory are missing, the
\* import ends with a non-zero exit status and no entity has been processed.
C12_SetupErrorsFatal ==
    (~credsOk \/ ~dirExists) =>
        /\ NothingProcessed
        /\ Terminal => exitCode = 1

\* C12 (amended): when credentials or the source directory are missing no
\* entity is ever processed; the report import then ends with exit status 1;
\* the workflow import ends with exit status 1 when the directory holds entity
\* files and user or password are missing, and with exit status 0 ("Skipping
\* import") when the directory is missing or holds no entity file.
C12_SetupErrorsPrecedeEntities ==
    (~credsOk \/ ~dirExists) =>
        /\ NothingProcessed
        /\ pc \notin {"auth", "loop", "lookup", "write", "done", "aborted", "interrupted"}
        /\ (Terminal /\ kind = "report") => exitCode = 1
        /\ (Terminal /\ kind = "workflow") =>
              exitCode = IF dirExists /\ Len(WorkflowFiles(dir)) > 0 THEN 1 ELSE 0

\* C12 witness: the report import ended with status 1 on a directory of two
\* or more files, the key missing, without a request.
C12_Witness ==
    /\ kind = "report" /\ ~credsOk /\ dirExists /\ Len(ReportFiles(dir)) >= 2
    /\ pc = "setupfail" /\ exitCode = 1 /\ reqs = <<>> /\ parsed = {}

C15_FullTallies ==
    pc \in {"done", "aborted"} =>
        /\ idx = Len(files) + 1
        /\ created + updated + errors = Len(files)

\* The position of the file named f in the directory, 0 for no file.
PosInDir(f) ==
    IF \E i \in 1..Len(dir) : dir[i].fname = f
      THEN CHOOSE i \in 1..Len(dir) : dir[i].fname = f
      ELSE 0

\* C17: sequential processing: at most one request is in flight (only the
\* latest can be unanswered); every write is issued right after the answer to
\* the lookup of the same file; and within a run the requests follow the order
\* of the files, so that every request for a file is answered before a request
\* for the next file is issued.
C17_Sequential ==
    /\ Cardinality({ j \in 1..Len(reqs) : reqs[j].status = "pending" }) <= 1
    /\ \A j \in 1..Len(reqs) : reqs[j].status = "pending" => j = Len(reqs)
    /\ \A k \in 1..Len(reqs) :
          reqs[k].purpose \in WritePurposes =>
              /\ k > 1
              /\ reqs[k - 1].purpose \in LookupPurposes
              /\ reqs[k - 1].run = reqs[k].run /\ reqs[k - 1].file = reqs[k].file
              /\ reqs[k - 1].status \notin {"pending", "interrupted"}
    /\ \A j \in 1..Len(reqs), k \in 1..Len(reqs) :
          (j < k /\ reqs[j].run = reqs[k].run)
          => PosInDir(reqs[j].file) <= PosInDir(reqs[k].file)

\* C17 witness: the write for the second file is in flight, the lookup and
\* the write of the first file and the lookup of the second are answered.
C17_Witness ==
    /\ Pending /\ pc = "write" /\ idx = 2
    /\ Len(reqs) >= 4
    /\ \A j \in 1..(Len(reqs) - 1) : reqs[j].status # "pending"

\* C18: no retry: within one run a file causes at most one lookup request and
\* at most one write request, also when one of them failed.
C18_NoRetry ==
    \A j \in 1..Len(reqs), k \in 1..Len(reqs) :
        (j # k /\ reqs[j].run = reqs[k].run /\ reqs[j].file = reqs[k].file
            /\ reqs[j].file # <<>>)
        => /\ ~(reqs[j].purpose \in LookupPurposes /\ reqs[k].purpose \in LookupPurposes)
           /\ ~(reqs[j].purpose \in WritePurposes /\ reqs[k].purpose \in WritePurposes)

\* C18 witness: a write was rejected, and the run went on to the next file and
\* completed.
C18_Witness ==
    /\ pc = "done" /\ errors = 1 /\ Len(files) >= 2
    /\ \E j \in 1..Len(reqs) :
          /\ reqs[j].run = run /\ reqs[j].purpose \in WritePurposes
          /\ reqs[j].status \in Failures
          /\ j < Len(reqs)

RECURSIVE RefImport(_, _, _, _)
\* The remote after one uninterrupted import of the files fs from position i on,
\* every request answered 2xx: each file is resolved (reports by name,
\* workflows by id), then updated in place or created.
RefImport(rem, fs, i, n) ==
    IF i > Len(fs) THEN rem
    ELSE LET body == IF kind = "report" THEN sanitizeForImport(fs[i].body)
                     ELSE fs[i].body
             match == IF kind = "report" THEN MatchesByName(rem, body["name"])
                      ELSE {IdOf(fs[i].body)} \cap DOMAIN rem
         IN  IF match # {}
               THEN RefImport(RemoteUpdate(rem, CHOOSE m \in match : TRUE, body),
                              fs, i + 1, n)
               ELSE RefImport(RemoteCreate(rem, body, n), fs, i + 1,
                              IF Has(body, "id") THEN n ELSE n + 1)

\* C19: safe, resumable interruption: when the first run is interrupted, no
\* request has been made for the files after the one in progress; every write
\* answered 2xx is on the remote; and when the batch (valid) is then run again
\* to completion without a failure (no error counted, every write answered
\* 2xx), the remote equals the remote after one
\* uninterrupted run of the batch on the initial target.
C19_ResumableInterruption ==
    /\ pc = "interrupted" =>
          \A i \in 1..Len(files) :
              i > idx => \A j \in 1..Len(reqs) : reqs[j].file # files[i].fname
    /\ \A j \in 1..Len(reqs) :
          (reqs[j].purpose \in WritePurposes /\ reqs[j].status = "200")
          => reqs[j].result \in DOMAIN remote
    /\ (interrupted /\ run = "second" /\ pc = "done" /\ errors = 0 /\ ValidBatch
           /\ WritesAnswered2xx)
          => remote = RefImport(initRemote, files, 1, 0)

\* C19 witness: the first run was interrupted while a create was in flight
\* that the remote carried out, after a first file was written; the second
\* run completed without a failure.
C19_Witness ==
    /\ interrupted /\ run = "second" /\ pc = "done" /\ errors = 0 /\ ValidBatch
    /\ WritesAnswered2xx
    /\ Len(files) >= 2
    /\ Succeeded("first", "create") # {}
    /\ \E j \in CreatesReached("first") : reqs[j].status = "interrupted"
    /\ remote # initRemote

\* C20: no duplicate by name: the remote holds at most one report per name in
\* every state of a report import, also when two files carry the same name.
C20_OneReportPerName ==
    kind = "report" =>
        \A a \in DOMAIN remote, b \in DOMAIN remote :
            (Has(remote[a], "name") /\ Has(remote[b], "name")
                /\ remote[a]["name"] = remote[b]["name"])
            => a = b

\* C20 witness: in one run a file created a report and a later file of the
\* same name updated that report.
C20_Witness ==
    /\ kind = "report"
    /\ \E j \in 1..Len(reqs), k \in 1..Len(reqs) :
          /\ j < k /\ reqs[j].run = reqs[k].run /\ reqs[j].file # reqs[k].file
          /\ reqs[j].purpose = "create" /\ reqs[j].status = "200"
          /\ reqs[k].purpose = "update" /\ reqs[k].status = "200"
          /\ reqs[k].target = reqs[j].result
          /\ reqs[k].body["name"] = reqs[j].body["name"]


\* C13 (as claimed): ids are preserved across environments: an entity that the
\* import created in the target from an exported file has in the target the
\* identifier it had in the source.
C13_IdsPreserved ==
    \A j \in 1..Len(reqs) :
        (reqs[j].purpose = "create" /\ reqs[j].status = "200"
            /\ reqs[j].file \in DOMAIN origin)
        => reqs[j].result = origin[reqs[j].file]

\* C16 (as claimed): after a completed export of N entities the output
\* directory holds _manifest.json and N entity files, one for each exported
\* entity.
C16_OneFilePerEntityAndManifest ==
    (xpc = "done" /\ xexit = 0) =>
        /\ ManifestName \in DOMAIN outDir
        /\ Cardinality(DOMAIN outDir \ {ManifestName}) = Len(xlist)
        /\ \A i \in 1..Len(xlist) :
              \E fn \in DOMAIN outDir : fn # ManifestName /\ origin[fn] = xlist[i]


\* C21 (as claimed): tally soundness: the number of entities counted (or
\* logged) as created in a run is the number of create requests of that run
\* answered 2xx, and likewise for updated; a write answered 404 or any other
\* non-2xx status is not counted as created or updated.
C21_TallySound ==
    /\ created = Cardinality(Succeeded(run, "create"))
    /\ updated = Cardinality(Succeeded(run, "update"))


\* C23 (as claimed): authentication outcome of the workflow import: when the
\* login call was answered 2xx, authenticate returned the token of the response
\* if it carries one and the base64 credential otherwise; when the login call
\* was answered with any other status or failed, the process ended with a
\* non-zero exit status and no entity request was issued in that run.
C23_AuthenticationOutcome ==
    \A j \in 1..Len(reqs) :
        (reqs[j].purpose = "auth" /\ reqs[j].run = run
            /\ reqs[j].status \notin {"pending", "interrupted"})
        => IF reqs[j].status = "200"
             THEN authToken = IF reqs[j].result = "token" THEN "token" ELSE "authString"
             ELSE /\ pc = "setupfail" /\ exitCode = 1
                  /\ \A k \in 1..Len(reqs) :
                        reqs[k].run = run
                        => reqs[k].purpose \notin LookupPurposes \cup WritePurposes


\* C22: the sanitizers are pure and total: each of the three can be applied to
\* every snapshot, also one that lacks excluded fields, and returns a result;
\* after the call the input object, its nested object included, holds what it
\* held before, and the result is another object than the input.
C22_SanitizerPureAndTotal ==
    /\ sFn = "none" =>
          /\ ENABLED ApplySanitize
          /\ ENABLED ApplySanitizeForImport
          /\ ENABLED ApplyCleanForExport
    /\ sFn \notin {"none", "idle"} =>
          /\ sRet \in DOMAIN heap
          /\ sRet # "report"
          /\ Value(heap, sRet) = sOut
          /\ Value(heap, "report") = sIn

\* C22 witness: cleanForExport was applied to a snapshot that holds createdAt
\* and nested data but no modifiedAt; the result shares the nested object with
\* the input, which is unchanged.
C22_Witness ==
    /\ sFn = "cleanForExport"
    /\ Has(sIn, "data") /\ Has(sIn, "createdAt") /\ ~Has(sIn, "modifiedAt")
    /\ sRet = "r" /\ ~Has(heap["r"], "createdAt")
    /\ heap["r"]["data"] = heap["report"]["data"]
    /\ Value(heap, "report") = sIn


\* C24: manifest consistency on workflow export: whenever _manifest.json is in
\* the output directory it holds one record per workflow of the source's list,
\* in the order of that list; its count is the number of records; the file of
\* every record is an entity file written in this run for that workflow; and
\* when the export has failed no manifest has been written.
C24_ManifestConsistent ==
    /\ ManifestName \in DOMAIN outDir =>
          LET m == outDir[ManifestName] IN
              /\ xlist = ListOf(source)
              /\ Len(m["workflows"]) = Len(xlist)
              /\ m["count"] = Len(m["workflows"])
              /\ \A i \in 1..Len(xlist) :
                    /\ m["workflows"][i].id = xlist[i]
                    /\ m["workflows"][i].name = source[xlist[i]]["name"]
                    /\ m["workflows"][i].file \in DOMAIN outDir \ {ManifestName}
                    /\ origin[m["workflows"][i].file] = xlist[i]
    /\ xpc = "failed" => ManifestName \notin DOMAIN outDir

\* C24 witness: a completed export of two or more workflows, the manifest
\* written after the entity files.
C24_Witness ==
    /\ kind = "workflow" /\ xpc = "done" /\ Len(xlist) >= 2
    /\ ManifestName \in DOMAIN outDir
    /\ Len(outDir[ManifestName]["workflows"]) = Len(xlist)
    /\ Cardinality(DOMAIN outDir) = Len(xlist) + 1

====
